---- MODULE Spec2Model ----
(***************************************************************************)
(* State-machine model of kaolin/graphics/SoftRenderer.py: construction of *)
(* a SoftRenderer, the stages of SoftRenderer.render, and the helper       *)
(* methods look_at, look, perspective_distortion, vertices_to_faces and    *)
(* rasterize.                                                              *)
(*                                                                         *)
(* Numbers are exact rationals <<n, d>> (d > 0, lowest terms); floating    *)
(* point rounding is not modelled.  Tensors are nested sequences.          *)
(***************************************************************************)
EXTENDS Integers, Sequences, FiniteSets, TLC

(***************************************************************************)
(* Bounds of the model.                                                    *)
(***************************************************************************)
MaxBatch == 2
MaxFaces == 2
MaxIntensity == 2
MaxImageSize == 2
MaxDist == 2

(***************************************************************************)
(* Rational arithmetic.                                                    *)
(***************************************************************************)
Abs(n) == IF n < 0 THEN -n ELSE n

RECURSIVE GCD(_, _)
GCD(a, b) == IF b = 0 THEN a ELSE GCD(b, a % b)

Reduce(n, d) ==
    LET g == GCD(Abs(n), Abs(d))
        s == IF d < 0 THEN -1 ELSE 1
    IN  IF n = 0 THEN <<0, 1>> ELSE <<s * (n \div g), s * (d \div g)>>

R(n) == <<n, 1>>
RAdd(a, b) ==
    LET g == GCD(a[2], b[2])
    IN  Reduce(a[1] * (b[2] \div g) + b[1] * (a[2] \div g), (a[2] \div g) * b[2])
RNeg(a) == <<-a[1], a[2]>>
RSub(a, b) == RAdd(a, RNeg(b))
RMul(a, b) ==
    LET x == Reduce(a[1], b[2])
        y == Reduce(b[1], a[2])
    IN  Reduce(x[1] * y[1], x[2] * y[2])
RDiv(a, b) == RMul(a, IF b[1] < 0 THEN <<-b[2], -b[1]>> ELSE <<b[2], b[1]>>)
RLeq(a, b) == a[1] * b[2] <= b[1] * a[2]
RMax(a, b) == IF RLeq(a, b) THEN b ELSE a
RAbs(a) == <<Abs(a[1]), a[2]>>
ISqrt(n) == CHOOSE k \in 0..n : k * k = n
RSqrt(a) == <<ISqrt(a[1]), ISqrt(a[2])>>

(***************************************************************************)
(* 3-vectors of rationals.                                                 *)
(***************************************************************************)
Vec(x, y, z) == <<R(x), R(y), R(z)>>
VSub(u, v) == <<RSub(u[1], v[1]), RSub(u[2], v[2]), RSub(u[3], v[3])>>
VDot(u, v) == RAdd(RAdd(RMul(u[1], v[1]), RMul(u[2], v[2])), RMul(u[3], v[3]))
\* torch.cross
Cross(u, v) ==
    << RSub(RMul(u[2], v[3]), RMul(u[3], v[2])),
       RSub(RMul(u[3], v[1]), RMul(u[1], v[3])),
       RSub(RMul(u[1], v[2]), RMul(u[2], v[1])) >>
\* 2-norm; a vector with at most one nonzero component has the magnitude of
\* that component as its norm.
VNorm(v) ==
    LET nz == {i \in 1..3 : v[i][1] # 0}
    IN  IF nz = {} THEN R(0)
        ELSE IF Cardinality(nz) = 1 THEN RAbs(v[CHOOSE i \in nz : TRUE])
        ELSE RSqrt(VDot(v, v))

\* eps of torch.nn.functional.normalize as used by look_at and look: 1e-5
NormalizeEpsInv == 100000
NormalizeEps == <<1, NormalizeEpsInv>>

\* torch.nn.functional.normalize(v, eps): v / max(||v||, eps)
Normalize(v, eps) ==
    LET n == RMax(VNorm(v), eps)
    IN  <<RDiv(v[1], n), RDiv(v[2], n), RDiv(v[3], n)>>

\* torch.matmul(v, R.transpose): component i is the dot product with row i
MatVec(rot, v) == <<VDot(rot[1], v), VDot(rot[2], v), VDot(rot[3], v)>>

(***************************************************************************)
(* Tensors.  A vertex tensor is [device, pts, distort]: pts is B x V x 3;  *)
(* distort = 0 for plain coordinates, and distort = a (an angle) when each *)
(* point (x, y, z) of pts stands for (x / (z w), y / (z w), z) with        *)
(* w = tan(a * 180 / pi), the value perspective_distortion computes.       *)
(* A face tensor is B x F x 3 integers.  A texture tensor is               *)
(* [none, tex]: none = TRUE is Python's None, tex is B x F texels; a texel *)
(* is [c, amb, dir]: the caller's colour c and the ambient and directional *)
(* lighting factors multiplied into it (<<>> when unlit).                  *)
(***************************************************************************)
NoneTextures == [none |-> TRUE, tex |-> <<>>]
Unlit(c) == [c |-> c, amb |-> <<>>, dir |-> <<>>]

\* faces[:, :, list(reversed(range(faces.shape[-1])))]
ReverseWinding(face) == <<face[3], face[2], face[1]>>

\* torch.cat((faces, faces[:, :, [2, 1, 0]]), dim=1)
BackFillFaces(faces) ==
    [b \in 1..Len(faces) |->
        faces[b] \o [f \in 1..Len(faces[b]) |-> ReverseWinding(faces[b][f])]]

\* torch.cat((textures, textures), dim=1); a None operand is a TypeError
BackFillTextures(textures) ==
    IF textures.none
    THEN [err |-> "TypeError", val |-> textures]
    ELSE [err |-> "",
          val |-> [none |-> FALSE,
                   tex |-> [b \in 1..Len(textures.tex) |->
                               textures.tex[b] \o textures.tex[b]]]]

\* vertices.reshape(B * V, 3): row i (0-based) of the flattened tensor
FlatRow(pts, i) ==
    LET V == Len(pts[1])
    IN  pts[(i \div V) + 1][(i % V) + 1]

\* vertices_to_faces: faces + arange(B) * V, then vertices.reshape(B*V, 3)[faces].
\* Indexing a tensor of N rows accepts -N .. N-1 (negative indices count from
\* the end) and raises IndexError otherwise.
VerticesToFaces(pts, faces) ==
    LET B == Len(pts)
        V == Len(pts[1])
        N == B * V
        idx(b, f, k) == faces[b][f][k] + (b - 1) * V
        bad == \E b \in 1..Len(faces) : \E f \in 1..Len(faces[b]) : \E k \in 1..3 :
                  idx(b, f, k) < -N \/ idx(b, f, k) >= N
        row(i) == FlatRow(pts, IF i < 0 THEN i + N ELSE i)
    IN  IF bad
        THEN [err |-> "IndexError", val |-> <<>>]
        ELSE [err |-> "",
              val |-> [b \in 1..Len(faces) |->
                         [f \in 1..Len(faces[b]) |->
                            [k \in 1..3 |-> row(idx(b, f, k))]]]]

\* lighting: gather the face corners, let the ambient and the directional
\* collaborator compute their factors, and multiply both into the textures.
\* The collaborators' results are kept symbolic: the ambient factor is a
\* function of (intensity, color), the directional one of (face corners,
\* intensity, color).  A None texture cannot be multiplied (TypeError).
Lighting(self, pts, faces, textures) ==
    LET fl == VerticesToFaces(pts, faces)
    IN  IF fl.err # "" THEN [err |-> fl.err, val |-> textures, fv |-> <<>>]
        ELSE IF textures.none THEN [err |-> "TypeError", val |-> textures, fv |-> fl.val]
        ELSE [err |-> "",
              fv  |-> fl.val,
              val |-> [none |-> FALSE,
                       tex |-> [b \in 1..Len(textures.tex) |->
                                 [f \in 1..Len(textures.tex[b]) |->
                                    [c   |-> textures.tex[b][f].c,
                                     amb |-> <<self.light_intensity_ambient,
                                               self.light_color_ambient>>,
                                     dir |-> <<fl.val[b][f],
                                               self.light_intensity_directional,
                                               self.light_color_directional>>]]]]]

\* look_at: z = normalize(at - eye), x = normalize(up x z), y = normalize(z x x),
\* R = rows (x, y, z); every vertex v becomes R (v - eye).  A 1-D eye, at and up
\* are repeated over the batch.
LookAtAxes(eye, at, up) ==
    LET z == Normalize(VSub(at, eye), NormalizeEps)
        x == Normalize(Cross(up, z), NormalizeEps)
        y == Normalize(Cross(z, x), NormalizeEps)
    IN  <<x, y, z>>

\* the eye added instead of subtracted
LookAtAddsEye(pts, eye, at, up) ==
    LET rot == LookAtAxes(eye, at, up)
    IN  [b \in 1..Len(pts) |->
           [v \in 1..Len(pts[b]) |->
              MatVec(rot, <<RAdd(pts[b][v][1], eye[1]), RAdd(pts[b][v][2], eye[2]),
                            RAdd(pts[b][v][3], eye[3])>>)]]

LookAt(pts, eye, at, up) ==
    LET rot == LookAtAxes(eye, at, up)
    IN  [b \in 1..Len(pts) |->
           [v \in 1..Len(pts[b]) |-> MatVec(rot, VSub(pts[b][v], eye))]]

\* look: as look_at, with z = normalize(direction)
LookAxes(direction, up) ==
    LET z == Normalize(direction, NormalizeEps)
        x == Normalize(Cross(up, z), NormalizeEps)
        y == Normalize(Cross(z, x), NormalizeEps)
    IN  <<x, y, z>>

Look(pts, eye, direction, up) ==
    LET rot == LookAxes(direction, up)
    IN  [b \in 1..Len(pts) |->
           [v \in 1..Len(pts[b]) |-> MatVec(rot, VSub(pts[b][v], eye))]]

\* perspective_distortion: x / (z * width), y / (z * width), z, with
\* width = tan(angle * 180 / pi); kept as the tag distort = angle.
PerspectiveDistortion(vertices, angle) ==
    [vertices EXCEPT !.distort = angle]

(***************************************************************************)
(* State.                                                                  *)
(*   self    the attributes of the live SoftRenderer instance              *)
(*   pc      the position of the render call in progress                   *)
(*   args    the arguments of the call, as they were at entry              *)
(*   caller  the caller's vertices, faces and textures tensors             *)
(*   loc     render's local variables                                      *)
(*   rast    the call of soft_rasterize made by render                     *)
(*   ret     what the call returned or raised                              *)
(*   prev    an earlier completed call, remembered for comparison          *)
(*   mcall   a direct call of a helper method and its result               *)
(*   tensors the background colour tensors: the one default object and the *)
(*           caller's own, and the object each instance refers to          *)
(***************************************************************************)
VARIABLES self, pc, args, caller, loc, rast, ret, prev, mcall, tensors

vars == <<self, pc, args, caller, loc, rast, ret, prev, mcall, tensors>>

MaxInstances == 2

CameraModes == {"projection", "look", "look_at"}
\* a camera_mode string outside the documented three
OtherCameraModes == {"orthographic"}
Modes == {"None", "rgb", "depth", "silhouette"}
ViewingAngles == {45}

ZeroVec == Vec(0, 0, 0)
NoVertices == [device |-> "", pts |-> <<>>, distort |-> 0]

\* 1 / tan(pi * angle / 180), for the angles whose cotangent is rational
OneOverTan(angle) == CASE angle = 45 -> R(1)

NoInstance ==
    [constructed |-> FALSE, serial |-> 0,
     image_size |-> 0, anti_aliasing |-> FALSE, fill_back |-> FALSE,
     camera_mode |-> "", K |-> 0, rmat |-> 0, tvec |-> 0,
     viewing_angle |-> 0, eye |-> ZeroVec, camera_direction |-> ZeroVec,
     light_intensity_ambient |-> 0, light_intensity_directional |-> 0,
     light_color_ambient |-> 0, light_color_directional |-> 0,
     soft_rasterizer |-> [image_size |-> 0, anti_aliasing |-> FALSE,
                          fill_back |-> FALSE]]

\* __init__.  K, rmat and tvec are stored in projection mode only, the viewing
\* angle, eye and camera direction in the look and look_at modes only (0 and
\* ZeroVec stand for an attribute that was not set; 0 also for a stored None).
\* Nothing is validated and nothing raises.  Intensities are in tenths, a
\* colour is the common value of its three channels.
NewRenderer(c, serial) ==
    LET proj == c.camera_mode = "projection"
        look == c.camera_mode \in {"look", "look_at"}
    IN  [constructed |-> TRUE, serial |-> serial,
         image_size |-> c.image_size,
         anti_aliasing |-> c.anti_aliasing,
         fill_back |-> c.fill_back,
         camera_mode |-> c.camera_mode,
         K |-> IF proj THEN c.K ELSE 0,
         rmat |-> IF proj THEN c.rmat ELSE 0,
         tvec |-> IF proj THEN c.tvec ELSE 0,
         viewing_angle |-> IF look THEN c.viewing_angle ELSE 0,
         eye |-> IF look
                 THEN <<R(0), R(0),
                        RSub(R(0), RAdd(OneOverTan(c.viewing_angle), R(1)))>>
                 ELSE ZeroVec,
         camera_direction |-> IF look THEN Vec(0, 0, 1) ELSE ZeroVec,
         light_intensity_ambient |-> c.light_intensity_ambient,
         light_intensity_directional |-> 5,
         light_color_ambient |-> 1,
         light_color_directional |-> 1,
         soft_rasterizer |-> [image_size |-> c.image_size,
                              anti_aliasing |-> c.anti_aliasing,
                              fill_back |-> c.fill_back]]

NoArgs ==
    [vertices |-> NoVertices, faces |-> <<>>, textures |-> NoneTextures,
     mode |-> "", K |-> 0, rmat |-> 0, tvec |-> 0]
NoCaller == [vertices |-> NoVertices, faces |-> <<>>, textures |-> NoneTextures]
NoLoc ==
    [vertices |-> NoVertices, faces |-> <<>>, textures |-> NoneTextures,
     lighting_calls |-> 0, faces_lighting |-> <<>>]
\* image_size = 0: soft_rasterize was given no image size; pooled: the result
\* went through avg_pool2d
NoRast ==
    [called |-> FALSE, vertices |-> NoVertices, textures |-> NoneTextures,
     image_size |-> 0, pooled |-> FALSE]
\* a returned value: [none, chans, unsqueezed]: None, or the channels of the
\* rasterizer's output it is sliced from
NoneValue == [none |-> TRUE, chans |-> <<>>, unsqueezed |-> FALSE]
NoRet ==
    [returned |-> FALSE, rgb |-> NoneValue, depth |-> NoneValue,
     alpha |-> NoneValue, err |-> "", stage |-> ""]
NoPrev ==
    [seen |-> FALSE, self |-> NoInstance, args |-> NoArgs, rast |-> NoRast,
     ret |-> NoRet]
NoCall == [op |-> "", done |-> FALSE, vertices |-> NoVertices, faces |-> <<>>,
           eye |-> ZeroVec, err |-> "", pts |-> <<>>, fv |-> <<>>, axes |-> <<>>,
           image_size |-> 0, pooled |-> FALSE]

Resting == pc \in {"idle", "done", "raised"}

(***************************************************************************)
(* Inputs.                                                                 *)
(***************************************************************************)
Devices == {"cpu", "cuda"}

\* B batch items; item b (from 0) is the triangle (0,0,b), (1,0,b), (0,1,b)
MeshPts(B) ==
    [b \in 1..B |-> [i \in 1..3 |-> Vec((i - 1) % 2, (i - 1) \div 2, b - 1)]]

VertexInput(B, device) == [device |-> device, pts |-> MeshPts(B), distort |-> 0]

\* n faces per batch item, the first one given, the others rotations of (0,1,2)
FaceInput(B, n, first) ==
    [b \in 1..B |->
        [f \in 1..n |-> IF f = 1 THEN first
                        ELSE <<(f - 1) % 3, f % 3, (f + 1) % 3>>]]

\* one colour per face, different for every face and batch item
TextureInput(B, n) ==
    [none |-> FALSE,
     tex |-> [b \in 1..B |-> [f \in 1..n |-> Unlit(10 * b + f)]]]

\* first faces: in range, and with an index one past the item's last vertex
FirstFaces == {<<0, 1, 2>>, <<0, 1, 3>>}

\* every batch item has MaxFaces faces
RenderArgs(batches, devices, firsts, cams) ==
    UNION { { [vertices |-> VertexInput(B, d),
               faces    |-> FaceInput(B, MaxFaces, first),
               textures |-> t,
               mode     |-> m,
               K |-> cam[1], rmat |-> cam[2], tvec |-> cam[3]] :
                d \in devices, first \in firsts,
                t \in {NoneTextures, TextureInput(B, MaxFaces)}, m \in Modes,
                cam \in cams } :
            B \in batches }

RendererConfigs(sizes, aas, cmodes, cams) ==
    { [image_size |-> sz, anti_aliasing |-> aa, fill_back |-> fb,
       camera_mode |-> cm, K |-> cam[1], rmat |-> cam[2], tvec |-> cam[3],
       viewing_angle |-> va, light_intensity_ambient |-> li] :
        sz \in sizes, aa \in aas, fb \in BOOLEAN, cm \in cmodes, cam \in cams,
        va \in ViewingAngles, li \in 1..MaxIntensity }

(***************************************************************************)
(* Construction and the stages of render.                                  *)
(***************************************************************************)
\* the colours a background tensor may hold (all channels 0, all channels 1)
BgValues == {0, 1}

\* the bg_color argument of __init__: left out, so that the parameter is bound
\* to the tensor torch.zeros(3) built once when the def statement ran, or a
\* tensor of the caller's own
DefaultBg == {[ref |-> "default", val |-> 0]}
BgArgs == DefaultBg \cup {[ref |-> "given", val |-> v] : v \in BgValues}

\* no instance yet; the default tensor holds zeros
NoTensors ==
    [default_bg |-> 0, bg_ref |-> <<>>, bg_given |-> <<>>, bg_expected |-> <<>>]

\* self.bg_color = bg_color: the attribute of the new instance refers to the
\* argument's tensor object, no copy is made.  bg_expected is the colour the
\* holder of the instance has asked for (at construction the documented
\* default zeros or the given colour, later the colour it last wrote).
BindBgColor(t, bg) ==
    [t EXCEPT !.bg_ref = Append(@, bg.ref),
              !.bg_given = Append(@, bg.val),
              !.bg_expected = Append(@, bg.val)]

\* the colour read through the bg_color attribute of instance i
BgColor(t, i) ==
    IF t.bg_ref[i] = "default" THEN t.default_bg ELSE t.bg_given[i]

\* SoftRenderer(...): a new instance replaces the live one; the caller keeps
\* the earlier instances
Construct(configs, bgs) ==
    /\ Resting
    /\ self.serial < MaxInstances
    /\ \E c \in configs : self' = NewRenderer(c, self.serial + 1)
    /\ \E bg \in bgs : tensors' = BindBgColor(tensors, bg)
    /\ pc' = "idle"
    /\ args' = NoArgs /\ caller' = NoCaller /\ loc' = NoLoc
    /\ rast' = NoRast /\ ret' = NoRet
    /\ UNCHANGED <<prev, mcall>>

\* what a caller saw of the call that has ended
Observed ==
    [seen |-> TRUE, self |-> self, args |-> args, rast |-> rast, ret |-> ret]

\* render(vertices, faces, textures, mode, K, rmat, tvec) is entered.  With
\* remember, the caller may keep what it saw of the call before this one.
RenderCall(argset, remember) ==
    /\ Resting
    /\ self.constructed
    /\ IF remember /\ pc # "idle"
       THEN prev' \in {prev, Observed}
       ELSE prev' = prev
    /\ \E a \in argset :
         /\ args' = a
         /\ caller' = [vertices |-> a.vertices, faces |-> a.faces,
                       textures |-> a.textures]
         /\ loc' = [NoLoc EXCEPT !.vertices = a.vertices, !.faces = a.faces,
                                 !.textures = a.textures]
    /\ pc' = "backfill"
    /\ rast' = NoRast /\ ret' = NoRet
    /\ UNCHANGED <<self, mcall, tensors>>

\* an exception leaves render
Raise(err, stage) ==
    /\ pc' = "raised"
    /\ ret' = [NoRet EXCEPT !.err = err, !.stage = stage]

\* lines 285-288
RenderBackFill ==
    /\ pc = "backfill"
    /\ IF self.fill_back
       THEN LET t == BackFillTextures(loc.textures)
            IN  IF t.err # ""
                THEN /\ Raise(t.err, "backfill")
                     /\ loc' = [loc EXCEPT !.faces = BackFillFaces(loc.faces)]
                ELSE /\ loc' = [loc EXCEPT !.faces = BackFillFaces(loc.faces),
                                           !.textures = t.val]
                     /\ pc' = "lighting"
                     /\ UNCHANGED ret
       ELSE /\ pc' = "lighting"
            /\ UNCHANGED <<loc, ret>>
    /\ UNCHANGED <<self, args, caller, rast, prev, mcall, tensors>>

\* lighting applied whatever the mode
RenderLightingAlways ==
    /\ pc = "lighting"
    /\ LET l == Lighting(self, loc.vertices.pts, loc.faces, loc.textures)
       IN  /\ loc' = [loc EXCEPT
                        !.lighting_calls = loc.lighting_calls + 1,
                        !.faces_lighting = l.fv,
                        !.textures = l.val]
           /\ IF l.err # ""
              THEN Raise(l.err, "lighting")
              ELSE pc' = "transform" /\ UNCHANGED ret
    /\ UNCHANGED <<self, args, caller, rast, prev, mcall, tensors>>

\* textures multiplied in place (textures *= ...): the caller's tensor changes
RenderLightingInPlace ==
    /\ pc = "lighting"
    /\ IF args.mode \notin {"depth", "silhouette"}
       THEN LET l == Lighting(self, loc.vertices.pts, loc.faces, loc.textures)
            IN  /\ loc' = [loc EXCEPT
                             !.lighting_calls = loc.lighting_calls + 1,
                             !.faces_lighting = l.fv,
                             !.textures = l.val]
                /\ caller' = [caller EXCEPT !.textures = l.val]
                /\ IF l.err # ""
                   THEN Raise(l.err, "lighting")
                   ELSE pc' = "transform" /\ UNCHANGED ret
       ELSE /\ pc' = "transform"
            /\ UNCHANGED <<loc, ret, caller>>
    /\ UNCHANGED <<self, args, rast, prev, mcall, tensors>>

\* lighting on the vertices of the camera frame (the transform done first)
RenderLightingCameraFrame ==
    /\ pc = "lighting"
    /\ IF args.mode \notin {"depth", "silhouette"}
       THEN LET l == Lighting(self,
                              LookAt(loc.vertices.pts, self.eye, ZeroVec, Vec(0, 1, 0)),
                              loc.faces, loc.textures)
            IN  /\ loc' = [loc EXCEPT
                             !.lighting_calls = loc.lighting_calls + 1,
                             !.faces_lighting = l.fv,
                             !.textures = l.val]
                /\ IF l.err # ""
                   THEN Raise(l.err, "lighting")
                   ELSE pc' = "transform" /\ UNCHANGED ret
       ELSE /\ pc' = "transform"
            /\ UNCHANGED <<loc, ret>>
    /\ UNCHANGED <<self, args, caller, rast, prev, mcall, tensors>>

\* lines 290-293
RenderLighting ==
    /\ pc = "lighting"
    /\ IF args.mode \notin {"depth", "silhouette"}
       THEN LET l == Lighting(self, loc.vertices.pts, loc.faces, loc.textures)
            IN  /\ loc' = [loc EXCEPT
                             !.lighting_calls = loc.lighting_calls + 1,
                             !.faces_lighting = l.fv,
                             !.textures = l.val]
                /\ IF l.err # ""
                   THEN Raise(l.err, "lighting")
                   ELSE pc' = "transform" /\ UNCHANGED ret
       ELSE /\ pc' = "transform"
            /\ UNCHANGED <<loc, ret>>
    /\ UNCHANGED <<self, args, caller, rast, prev, mcall, tensors>>

\* line 296, transform_to_camera_frame (lines 361-375).  The projection branch
\* reads the local K before any assignment: UnboundLocalError.  In look the
\* default up is torch.FloatTensor([0, 1, 0], device=device), which the CPU
\* tensor type refuses for another device.  A camera_mode outside the three
\* takes no branch.
RenderTransform ==
    /\ pc = "transform"
    /\ CASE self.camera_mode = "look_at" ->
              /\ loc' = [loc EXCEPT !.vertices.pts =
                           LookAt(loc.vertices.pts, self.eye, ZeroVec, Vec(0, 1, 0))]
              /\ pc' = "project" /\ UNCHANGED ret
         [] self.camera_mode = "look" ->
              IF loc.vertices.device # "cpu"
              THEN Raise("RuntimeError", "transform") /\ UNCHANGED loc
              ELSE /\ loc' = [loc EXCEPT !.vertices.pts =
                                Look(loc.vertices.pts, self.eye,
                                     self.camera_direction, Vec(0, 1, 0))]
                   /\ pc' = "project" /\ UNCHANGED ret
         [] self.camera_mode = "projection" ->
              Raise("UnboundLocalError", "transform") /\ UNCHANGED loc
         [] OTHER ->
              pc' = "project" /\ UNCHANGED <<loc, ret>>
    /\ UNCHANGED <<self, args, caller, rast, prev, mcall, tensors>>

\* the converted angle written back to the instance
RenderProjectStoresAngle ==
    /\ pc = "project"
    /\ CASE self.camera_mode \in {"look_at", "look"} ->
              /\ loc' = [loc EXCEPT !.vertices =
                           PerspectiveDistortion(loc.vertices, self.viewing_angle)]
              /\ self' = [self EXCEPT !.viewing_angle = self.viewing_angle * 57]
              /\ pc' = "rasterize" /\ UNCHANGED ret
         [] self.camera_mode = "projection" ->
              Raise("NameError", "project") /\ UNCHANGED <<loc, self>>
         [] OTHER ->
              pc' = "rasterize" /\ UNCHANGED <<loc, ret, self>>
    /\ UNCHANGED <<args, caller, rast, prev, mcall, tensors>>

\* line 299, project_to_image (lines 397-408).  The projection branch names K,
\* rmat and tvec, which are not defined there (NameError); render never gets
\* that far in projection mode.
RenderProject ==
    /\ pc = "project"
    /\ CASE self.camera_mode \in {"look_at", "look"} ->
              /\ loc' = [loc EXCEPT !.vertices =
                           PerspectiveDistortion(loc.vertices, self.viewing_angle)]
              /\ pc' = "rasterize" /\ UNCHANGED ret
         [] self.camera_mode = "projection" ->
              Raise("NameError", "project") /\ UNCHANGED loc
         [] OTHER ->
              pc' = "rasterize" /\ UNCHANGED <<loc, ret>>
    /\ UNCHANGED <<self, args, caller, rast, prev, mcall, tensors>>

\* line 302: soft_rasterize(vertices, textures), no other argument
RenderRasterize ==
    /\ pc = "rasterize"
    /\ rast' = [called |-> TRUE, vertices |-> loc.vertices,
                textures |-> loc.textures, image_size |-> 0, pooled |-> FALSE]
    /\ pc' = "return"
    /\ UNCHANGED <<self, args, caller, loc, ret, prev, mcall, tensors>>

\* lines 304-311: rgb = out[:, :3], depth = out[:, 3] (unsqueezed when the
\* batch size is 1), alpha = None
RenderReturn ==
    /\ pc = "return"
    /\ ret' = [returned |-> TRUE,
               rgb   |-> [none |-> FALSE, chans |-> <<0, 1, 2>>, unsqueezed |-> FALSE],
               depth |-> [none |-> FALSE, chans |-> <<3>>,
                          unsqueezed |-> (Len(rast.vertices.pts) = 1)],
               alpha |-> NoneValue,
               err |-> "", stage |-> ""]
    /\ pc' = "done"
    /\ UNCHANGED <<self, args, caller, loc, rast, prev, mcall, tensors>>

NoCam == {<<0, 0, 0>>}
CamOverrides == {<<0, 0, 0>>, <<1, 0, 1>>}
StoredCams == {<<0, 0, 0>>, <<2, 2, 2>>}

Configs ==
    RendererConfigs({MaxImageSize}, {TRUE}, {"look", "look_at"} \cup OtherCameraModes, NoCam)
      \cup RendererConfigs({MaxImageSize}, {TRUE}, {"projection"}, StoredCams)
Args == RenderArgs(1..MaxBatch, Devices, FirstFaces, CamOverrides)

Init ==
    /\ self = NoInstance
    /\ pc = "idle"
    /\ args = NoArgs /\ caller = NoCaller /\ loc = NoLoc
    /\ rast = NoRast /\ ret = NoRet
    /\ prev = NoPrev /\ mcall = NoCall
    /\ tensors = NoTensors

Next ==
    \/ Construct(Configs, DefaultBg)
    \/ RenderCall(Args, FALSE)
    \/ RenderBackFill
    \/ RenderLighting
    \/ RenderTransform
    \/ RenderProject
    \/ RenderRasterize
    \/ RenderReturn

Spec == Init /\ [][Next]_vars

(***************************************************************************)
(* A second specification, for comparing two calls: few inputs, and the    *)
(* caller remembers an earlier call.                                       *)
(***************************************************************************)
ObsConfigs ==
    RendererConfigs({MaxImageSize}, {TRUE}, {"look_at", "projection"}, NoCam)
ObsArgs == RenderArgs({1}, {"cuda"}, {<<0, 1, 2>>}, NoCam)

NextObs ==
    \/ Construct(ObsConfigs, DefaultBg)
    \/ RenderCall(ObsArgs, TRUE)
    \/ RenderBackFill
    \/ RenderLighting
    \/ RenderTransform
    \/ RenderProject
    \/ RenderRasterize
    \/ RenderReturn

SpecObs == Init /\ [][NextObs]_vars

(***************************************************************************)
(* The rasterize method, called directly (render does not call it).        *)
(***************************************************************************)
\* rasterize (lines 425-436): the face corners are gathered, then the name
\* soft_rasterize_cuda is looked up, which the module neither defines nor
\* imports: NameError, before any image is made or pooled.
Rasterize(argset) ==
    /\ Resting
    /\ self.constructed
    /\ \E a \in argset :
         LET fv == VerticesToFaces(a.vertices.pts, a.faces)
         IN  mcall' = [NoCall EXCEPT
                         !.op = "rasterize", !.done = TRUE,
                         !.vertices = a.vertices, !.faces = a.faces,
                         !.fv = fv.val,
                         !.err = IF fv.err # "" THEN fv.err ELSE "NameError"]
    /\ UNCHANGED <<self, pc, args, caller, loc, rast, ret, prev, tensors>>

RasterConfigs == RendererConfigs(1..MaxImageSize, BOOLEAN, {"look_at"}, NoCam)

NextRaster ==
    \/ Construct(RasterConfigs, DefaultBg)
    \/ RenderCall(ObsArgs, FALSE)
    \/ RenderBackFill
    \/ RenderLighting
    \/ RenderTransform
    \/ RenderProject
    \/ RenderRasterize
    \/ RenderReturn
    \/ Rasterize(ObsArgs)

SpecRaster == Init /\ [][NextRaster]_vars

(***************************************************************************)
(* vertices_to_faces and look_at as functions of their arguments: the      *)
(* arguments are drawn in the initial state, one step applies the method.  *)
(***************************************************************************)
\* SoftRenderer() with the defaults that matter here
DefaultRenderer ==
    NewRenderer([image_size |-> MaxImageSize, anti_aliasing |-> TRUE,
                 fill_back |-> TRUE, camera_mode |-> "projection",
                 K |-> 0, rmat |-> 0, tvec |-> 0, viewing_angle |-> 45,
                 light_intensity_ambient |-> 1], 1)

InitMethod(calls) ==
    /\ self = DefaultRenderer
    /\ pc = "idle"
    /\ args = NoArgs /\ caller = NoCaller /\ loc = NoLoc
    /\ rast = NoRast /\ ret = NoRet
    /\ prev = NoPrev
    /\ mcall \in calls
    /\ tensors = BindBgColor(NoTensors, [ref |-> "default", val |-> 0])

MaxIndex == 7

\* one face (0, j, k) per batch item, j and k in and out of range
GatherCalls ==
    { [NoCall EXCEPT !.op = "vertices_to_faces",
                     !.vertices = VertexInput(B, "cuda"),
                     !.faces = [b \in 1..B |-> << <<0, j, k>> >>]] :
        B \in 1..MaxBatch, j \in -MaxIndex..MaxIndex, k \in -MaxIndex..MaxIndex }

VerticesToFacesCall ==
    /\ mcall.op = "vertices_to_faces" /\ ~mcall.done
    /\ LET fv == VerticesToFaces(mcall.vertices.pts, mcall.faces)
       IN  mcall' = [mcall EXCEPT !.done = TRUE, !.fv = fv.val, !.err = fv.err]
    /\ UNCHANGED <<self, pc, args, caller, loc, rast, ret, prev, tensors>>

SpecGather == InitMethod(GatherCalls) /\ [][VerticesToFacesCall]_vars

\* distances of the eye from the point looked at: 1 .. MaxDist, and
\* 1 .. MaxDist halves of the normalisation epsilon
Dists ==
    {R(k) : k \in 1..MaxDist}
        \cup {Reduce(k, 2 * NormalizeEpsInv) : k \in 1..MaxDist}

\* eye - at
EyeOffsets ==
    {<<R(0), R(0), RNeg(d)>> : d \in Dists}
        \cup {Vec(3, 0, -4), Vec(0, 5, 0), Vec(0, 0, 3)}

VAdd(u, v) == <<RAdd(u[1], v[1]), RAdd(u[2], v[2]), RAdd(u[3], v[3])>>

LookAtCalls ==
    { [NoCall EXCEPT !.op = "look_at",
                     !.vertices = VertexInput(B, "cuda"),
                     !.eye = VAdd(at, off),
                     !.axes = <<at, up>>] :
        B \in 1..MaxBatch, off \in EyeOffsets,
        at \in {ZeroVec, Vec(0, 0, 1)}, up \in {Vec(0, 1, 0), Vec(1, 0, 0)} }

\* look_at(vertices, eye, at, up); mcall.axes holds (at, up) before the call
\* and (at, up, x, y, z) after it
LookAtCall ==
    /\ mcall.op = "look_at" /\ ~mcall.done
    /\ LET at == mcall.axes[1]
           up == mcall.axes[2]
       IN  mcall' = [mcall EXCEPT
                       !.done = TRUE,
                       !.pts = LookAt(mcall.vertices.pts, mcall.eye, at, up),
                       !.axes = <<at, up>> \o LookAtAxes(mcall.eye, at, up)]
    /\ UNCHANGED <<self, pc, args, caller, loc, rast, ret, prev, tensors>>

SpecLookAt == InitMethod(LookAtCalls) /\ [][LookAtCall]_vars

(***************************************************************************)
(* Properties.                                                             *)
(***************************************************************************)
SkipsLighting(m) == m \in {"depth", "silhouette"}
Ended == pc \in {"done", "raised"}

\* C1: the returned triple is sliced by mode: 'rgb' returns only rgb (depth and
\* alpha are None), 'depth' only depth, 'silhouette' only alpha, and None
\* returns all three, none of them None.
C1_OutputsSlicedByMode ==
    ret.returned =>
        /\ args.mode = "rgb" =>
              ~ret.rgb.none /\ ret.depth.none /\ ret.alpha.none
        /\ args.mode = "depth" =>
              ret.rgb.none /\ ~ret.depth.none /\ ret.alpha.none
        /\ args.mode = "silhouette" =>
              ret.rgb.none /\ ret.depth.none /\ ~ret.alpha.none
        /\ args.mode = "None" =>
              ~ret.rgb.none /\ ~ret.depth.none /\ ~ret.alpha.none

\* the lighting decision of the call has been passed
PastLighting ==
    \/ pc \in {"transform", "project", "rasterize", "return", "done"}
    \/ pc = "raised" /\ ret.stage # "backfill"

LightingMasked(s) ==
    [s EXCEPT !.serial = 0,
              !.light_intensity_ambient = 0, !.light_intensity_directional = 0,
              !.light_color_ambient = 0, !.light_color_directional = 0]

\* C2: in the modes 'depth' and 'silhouette' a render call never invokes
\* lighting and hands the rasterizer the unlit textures, so that two instances
\* that differ in lighting configuration only give the same result for the
\* same arguments; in every other mode a call that gets to the lighting stage
\* invokes lighting exactly once.
C2_LightingSkippedForDepthAndSilhouette ==
    /\ loc.lighting_calls =
          IF PastLighting /\ ~SkipsLighting(args.mode) THEN 1 ELSE 0
    /\ (rast.called /\ SkipsLighting(args.mode)) =>
          rast.textures = IF self.fill_back
                          THEN BackFillTextures(args.textures).val
                          ELSE args.textures
    /\ ( /\ prev.seen /\ Ended
         /\ SkipsLighting(args.mode)
         /\ prev.args = args
         /\ LightingMasked(prev.self) = LightingMasked(self) ) =>
          prev.rast = rast /\ prev.ret = ret

\* two instances with different lighting have rendered the same depth image
C2_Witness ==
    /\ prev.seen /\ pc = "done" /\ ret.returned /\ prev.ret.returned
    /\ args.mode = "depth" /\ ~args.textures.none
    /\ prev.args = args
    /\ prev.self.serial # self.serial
    /\ prev.self.light_intensity_ambient # self.light_intensity_ambient
    /\ LightingMasked(prev.self) = LightingMasked(self)

\* C3: no renderer instance exists whose camera_mode is outside
\* {projection, look, look_at}: such a construction fails.
C3_InvalidCameraModeRejected ==
    self.constructed => self.camera_mode \in CameraModes

\* C4: in projection mode a render call does not fail on an unresolved K, rmat
\* or tvec: the camera transform and the image projection complete.
C4_ProjectionResolvesCamera ==
    (self.camera_mode = "projection" /\ pc = "raised") =>
        ret.stage \notin {"transform", "project"}

\* C5: the rasterizer receives the corners of 2F faces with fill_back (the F
\* original triples in order, then the F reversed ones) and of the F original
\* faces without it; the texture of face F+n is that of face n.
C5_RasterizerGetsBackFilledFaces ==
    rast.called =>
        LET F == Len(args.faces[1])
            n == IF self.fill_back THEN 2 * F ELSE F
            faces == [b \in 1..Len(args.faces) |->
                        [f \in 1..n |->
                            IF f <= F THEN args.faces[b][f]
                            ELSE << args.faces[b][f - F][3],
                                    args.faces[b][f - F][2],
                                    args.faces[b][f - F][1] >>]]
        IN  /\ rast.vertices.pts = VerticesToFaces(loc.vertices.pts, faces).val
            /\ ~args.textures.none =>
                 \A b \in 1..Len(args.faces) :
                    /\ Len(rast.textures.tex[b]) = n
                    /\ \A f \in 1..n :
                          rast.textures.tex[b][f].c =
                             args.textures.tex[b][IF f <= F THEN f ELSE f - F].c

\* C6: vertices_to_faces returns vertices[b][faces[b][f][k]] for every batch
\* item b, face f and corner k, and fails with an error when an index is
\* outside 0..V-1.
C6_GatherStaysInBatch ==
    (mcall.op = "vertices_to_faces" /\ mcall.done) =>
        LET pts == mcall.vertices.pts
            V == Len(pts[1])
            corners == {<<b, f, k>> : b \in 1..Len(pts), f \in {1}, k \in 1..3}
            inrange == \A c \in corners :
                          mcall.faces[c[1]][c[2]][c[3]] \in 0..(V - 1)
        IN  IF inrange
            THEN /\ mcall.err = ""
                 /\ \A c \in corners :
                       mcall.fv[c[1]][c[2]][c[3]] =
                          pts[c[1]][mcall.faces[c[1]][c[2]][c[3]] + 1]
            ELSE mcall.err = "IndexError"

\* C7: for one renderer instance, the result of render is the same for the
\* same arguments whatever calls were made on the instance before, and render
\* leaves the instance's attributes as they were.
C7_RenderIsPure ==
    (prev.seen /\ prev.self.serial = self.serial) =>
        /\ prev.self = self
        /\ (Ended /\ prev.args = args) => (prev.rast = rast /\ prev.ret = ret)

\* the same instance has rendered the same arguments again, lighting included
C7_Witness ==
    /\ prev.seen /\ prev.self.serial = self.serial
    /\ pc = "done" /\ ret.returned
    /\ prev.args = args /\ args.mode = "None"
    /\ loc.lighting_calls = 1

\* C8: during and after a render call, returned or failed, the caller's
\* vertices, faces and textures hold the values they had at entry.
C8_CallerTensorsUnchanged ==
    caller = [vertices |-> args.vertices, faces |-> args.faces,
              textures |-> args.textures]

\* a call has back-filled, lit, transformed and projected, and returned
C8_Witness ==
    /\ pc = "done" /\ ret.returned
    /\ self.fill_back /\ self.camera_mode = "look_at" /\ args.mode = "None"
    /\ loc.faces # caller.faces
    /\ loc.textures # caller.textures
    /\ loc.vertices # caller.vertices

Identity == <<Vec(1, 0, 0), Vec(0, 1, 0), Vec(0, 0, 1)>>

\* look_at was called with eye = (0, 0, -d), at = (0, 0, 0), up = (0, 1, 0)
C9Case(d) ==
    /\ mcall.op = "look_at" /\ mcall.done
    /\ mcall.axes[1] = ZeroVec /\ mcall.axes[2] = Vec(0, 1, 0)
    /\ mcall.eye = <<R(0), R(0), RNeg(d)>>

\* the rotation is the identity, every vertex v maps to v - eye, the origin
\* to (0, 0, d)
C9Result(d) ==
    /\ <<mcall.axes[3], mcall.axes[4], mcall.axes[5]>> = Identity
    /\ \A b \in 1..Len(mcall.pts) : \A v \in 1..Len(mcall.pts[b]) :
          LET p == mcall.vertices.pts[b][v]
          IN  /\ mcall.pts[b][v] =
                    <<RSub(p[1], mcall.eye[1]), RSub(p[2], mcall.eye[2]),
                      RSub(p[3], mcall.eye[3])>>
              /\ p = ZeroVec => mcall.pts[b][v] = <<R(0), R(0), d>>

C10_AntiAliasedResolution ==
    LET size == IF self.anti_aliasing THEN 2 * self.image_size
                ELSE self.image_size
    IN  /\ rast.called =>
              rast.image_size = size /\ rast.pooled = self.anti_aliasing
        /\ (mcall.op = "rasterize" /\ mcall.done /\ mcall.fv # <<>>) =>
              /\ mcall.err = ""
              /\ mcall.image_size = size /\ mcall.pooled = self.anti_aliasing

\* the faces render holds after its back-fill step
FacesAfterBackFill ==
    IF self.fill_back THEN BackFillFaces(args.faces) ELSE args.faces

\* C11: the rasterizer is given the per-face vertices, the B x F x 3 x 3 gather
\* of the projected vertices through the (back-filled) faces, and the
\* parameters set at construction; never the per-vertex array.
C11_RasterizerGetsFaceVerticesAndConfig ==
    rast.called =>
        /\ rast.vertices.pts =
              VerticesToFaces(loc.vertices.pts, FacesAfterBackFill).val
        /\ rast.image_size = self.soft_rasterizer.image_size

\* the vertices after the camera transform and the projection of an instance
\* in look_at mode
LookAtProjected(v) ==
    PerspectiveDistortion(
        [v EXCEPT !.pts = LookAt(v.pts, self.eye, ZeroVec, Vec(0, 1, 0))],
        self.viewing_angle)

\* the same for an instance in look mode
LookProjected(v) ==
    PerspectiveDistortion(
        [v EXCEPT !.pts = Look(v.pts, self.eye, self.camera_direction,
                               Vec(0, 1, 0))],
        self.viewing_angle)

\* the stage that follows each stage of a call
C12Step ==
    /\ pc = "backfill" => pc' \in {"lighting", "raised"}
    /\ pc = "lighting" => pc' \in {"transform", "raised"}
    /\ pc = "transform" => pc' \in {"project", "raised"}
    /\ pc = "project" => pc' \in {"rasterize", "raised"}
    /\ pc = "rasterize" => pc' = "return"
    /\ pc = "return" => pc' = "done"
    /\ pc' = "lighting" => pc = "backfill"
    /\ pc' = "transform" => pc = "lighting"
    /\ pc' = "project" => pc = "transform"
    /\ pc' = "rasterize" => pc = "project"

\* what lighting and the rasterizer have read
C12Reads ==
    /\ (loc.lighting_calls = 1 /\ loc.faces_lighting # <<>>) =>
          loc.faces_lighting =
             VerticesToFaces(args.vertices.pts, FacesAfterBackFill).val
    /\ (loc.lighting_calls = 1 /\ PastLighting /\ ret.stage # "lighting") =>
          loc.textures =
             Lighting(self, args.vertices.pts, FacesAfterBackFill,
                      IF self.fill_back THEN BackFillTextures(args.textures).val
                      ELSE args.textures).val
    /\ (rast.called /\ self.camera_mode = "look_at") =>
          rast.vertices = LookAtProjected(args.vertices)
    /\ (rast.called /\ self.camera_mode = "look") =>
          rast.vertices = LookProjected(args.vertices)
    /\ (rast.called /\ self.camera_mode \notin CameraModes) =>
          rast.vertices = args.vertices

\* C12: the stages of a render call run in the order back-fill, lighting
\* (unless skipped), camera transform, projection, rasterization; lighting
\* reads the caller's object-space vertices with the back-filled faces and
\* textures, the rasterizer reads the vertices after transform and projection.
C12_StagesInOrder == [](C12Reads) /\ [][C12Step]_vars

\* a call has lit the back-filled mesh and rasterized the projected vertices
C12_Witness ==
    /\ pc = "done" /\ ret.returned
    /\ self.fill_back /\ self.camera_mode = "look_at" /\ args.mode = "None"
    /\ loc.lighting_calls = 1
    /\ Len(loc.faces_lighting[1]) = 2 * Len(args.faces[1])
    /\ rast.vertices.pts # args.vertices.pts
    /\ rast.vertices.distort # 0

\* C14: a call with textures omitted in mode 'depth' or 'silhouette' does not
\* fail in back-filling, whatever fill_back is: back-filling needs no texture
\* tensor in the modes that skip lighting.
C14_BackFillNeedsNoTextures ==
    (args.textures.none /\ SkipsLighting(args.mode) /\ pc = "raised") =>
        ret.stage # "backfill"

(***************************************************************************)
(* Several instances and their background colours.                         *)
(***************************************************************************)
\* renderer.bg_color.fill_(v) by the holder of instance i: the tensor object
\* the attribute refers to is modified in place
FillBgColor ==
    /\ Resting
    /\ \E i \in 1..Len(tensors.bg_ref), v \in BgValues :
         /\ v # BgColor(tensors, i)
         /\ tensors' =
              [(IF tensors.bg_ref[i] = "default"
                THEN [tensors EXCEPT !.default_bg = v]
                ELSE [tensors EXCEPT !.bg_given[i] = v])
               EXCEPT !.bg_expected[i] = v]
    /\ UNCHANGED <<self, pc, args, caller, loc, rast, ret, prev, mcall>>

DefaultsConfigs ==
    RendererConfigs({MaxImageSize}, {TRUE}, {"look", "look_at"}, NoCam)

NextDefaults ==
    \/ Construct(DefaultsConfigs, BgArgs)
    \/ FillBgColor

SpecDefaults == Init /\ [][NextDefaults]_vars

\* C13: no default tensor is shared mutable state: every instance holds a
\* background colour of its own, so the colour read through an instance is
\* the one asked for at its construction or last written through it, whatever
\* was written in place through another instance.
C13_InstancesHoldTheirOwnBgColor ==
    \A i \in 1..Len(tensors.bg_ref) :
        BgColor(tensors, i) = tensors.bg_expected[i]

====
